---- MODULE Spec2Model ----
(***************************************************************************)
(* A model of the AIM client (src/src/project0/aim_client.py): the form    *)
(* discovery GET, the heuristic field mapping of post_to_aim, the          *)
(* submission POST, and the text parser parse_aim_output.                  *)
(*                                                                         *)
(* Python strings are sequences of one-character strings, so that lower(), *)
(* strip(), substring tests, str() of a float and float() of a literal are *)
(* computed character by character.  A Python dict is a sequence of        *)
(* <<key, value>> pairs with distinct keys, in insertion order.  A float   *)
(* parameter is a number of tenths (2981 is 298.1).                        *)
(*                                                                         *)
(* The main window of gui.py is modelled by its two buttons, its result    *)
(* and its worker threads.                                                 *)
(***************************************************************************)
EXTENDS Integers, Sequences, FiniteSets, TLC

VARIABLES pc, temperature_k, rh, species, solids, page, payload, placedBy,
          solidFields, calls, html, text, results,
          run_btn, export_btn, progress, current_results, workers

(* the state of one invocation of the client *)
client == <<pc, temperature_k, rh, species, solids, page, payload, placedBy,
            solidFields, calls, html, text, results>>

(* the state of the main window (src/src/project0/gui.py): whether the Run *)
(* and Export buttons are enabled, whether the progress bar is visible,    *)
(* the displayed result, and the AIMWorker threads started so far          *)
window == <<run_btn, export_btn, progress, current_results, workers>>

vars == <<client, window>>

----------------------------------------------------------------------------
(* Bounds of the model.                                                    *)

MaxFields == 2
MaxLines == 2
MaxRuns == 3

----------------------------------------------------------------------------
(* String literals of the source.                                          *)

S_water_var == <<"w", "a", "t", "e", "r", "_", "v", "a", "r">>
S_water == <<"w", "a", "t", "e", "r">>
S_interactive_type == <<"i", "n", "t", "e", "r", "a", "c", "t", "i", "v", "e", "_", "t", "y", "p", "e">>
S_2 == <<"2">>
S_temp == <<"t", "e", "m", "p">>
S_temperature == <<"t", "e", "m", "p", "e", "r", "a", "t", "u", "r", "e">>
S_t_ == <<"t", "_">>
S_t == <<"t">>
S_rh == <<"r", "h">>
S_humid == <<"h", "u", "m", "i", "d">>
S_relative == <<"r", "e", "l", "a", "t", "i", "v", "e">>
S_species == <<"s", "p", "e", "c", "i", "e", "s">>
S_conc == <<"c", "o", "n", "c">>
S_concentration == <<"c", "o", "n", "c", "e", "n", "t", "r", "a", "t", "i", "o", "n">>
S_input == <<"i", "n", "p", "u", "t">>
S_mole == <<"m", "o", "l", "e">>
S_Temperature == <<"T", "e", "m", "p", "e", "r", "a", "t", "u", "r", "e">>
S_T == <<"T">>
S_RH == <<"R", "H">>
S_submit == <<"s", "u", "b", "m", "i", "t">>
S_RunModel == <<"R", "u", "n", " ", "m", "o", "d", "e", "l">>
S_Run == <<"R", "u", "n">>
S_on == <<"o", "n">>
S_checkbox == <<"c", "h", "e", "c", "k", "b", "o", "x">>
S_radio == <<"r", "a", "d", "i", "o">>
S_text == <<"t", "e", "x", "t">>
S_total == <<"t", "o", "t", "a", "l">>
S_gibbs == <<"g", "i", "b", "b", "s">>
S_ph == <<"p", "h">>

----------------------------------------------------------------------------
(* Python string operations.                                               *)

UpperCase == <<"A","B","C","D","E","F","G","H","I","J","K","L","M",
               "N","O","P","Q","R","S","T","U","V","W","X","Y","Z">>
LowerCase == <<"a","b","c","d","e","f","g","h","i","j","k","l","m",
               "n","o","p","q","r","s","t","u","v","w","x","y","z">>
DigitChars == <<"0","1","2","3","4","5","6","7","8","9">>
SpaceChars == {" ", "\n", "\t"}

Letters == {UpperCase[i] : i \in 1..26} \cup {LowerCase[i] : i \in 1..26}
Punctuation == {"_", "+", "-", "(", ")", "[", "]", "/", ".", ":", "=", ",", "!"}
Alphabet == Letters \cup {DigitChars[i] : i \in 1..10} \cup SpaceChars \cup Punctuation

(* str.lower() of one character, tabulated over the alphabet *)
LowerTable ==
    [c \in Alphabet |->
        IF \E i \in 1..26 : UpperCase[i] = c
        THEN LowerCase[CHOOSE i \in 1..26 : UpperCase[i] = c]
        ELSE c]

LowerChar(c) == LowerTable[c]

Lower(s) == [i \in 1..Len(s) |-> LowerChar(s[i])]

Contains(s, p) ==
    \E i \in 0..(Len(s) - Len(p)) : SubSeq(s, i + 1, i + Len(p)) = p

RECURSIVE LStrip(_)
LStrip(s) == IF s # <<>> /\ s[1] \in SpaceChars THEN LStrip(Tail(s)) ELSE s

RECURSIVE RStrip(_)
RStrip(s) ==
    IF s # <<>> /\ s[Len(s)] \in SpaceChars
    THEN RStrip(SubSeq(s, 1, Len(s) - 1)) ELSE s

Strip(s) == RStrip(LStrip(s))

RECURSIVE Digits(_)
Digits(n) ==
    IF n < 10 THEN <<DigitChars[n + 1]>>
    ELSE Append(Digits(n \div 10), DigitChars[(n % 10) + 1])

(* str(x) of a non-negative float x given in tenths: "298.1", "0.5", "1.0" *)
Str(x) == Digits(x \div 10) \o <<".">> \o Digits(x % 10)

RECURSIVE Join(_, _)
Join(parts, sep) ==
    IF parts = <<>> THEN <<>>
    ELSE IF Len(parts) = 1 THEN parts[1]
    ELSE parts[1] \o sep \o Join(Tail(parts), sep)

----------------------------------------------------------------------------
(* Python dict operations on a sequence of <<key, value>> pairs.           *)

Keys(d) == {d[i][1] : i \in 1..Len(d)}
Has(d, k) == \E i \in 1..Len(d) : d[i][1] = k
Get(d, k) == d[CHOOSE i \in 1..Len(d) : d[i][1] = k][2]
Put(d, k, v) ==
    IF Has(d, k)
    THEN [i \in 1..Len(d) |-> IF d[i][1] = k THEN <<k, v>> ELSE d[i]]
    ELSE Append(d, <<k, v>>)
SetDefault(d, k, v) == IF Has(d, k) THEN d ELSE Append(d, <<k, v>>)

----------------------------------------------------------------------------
(* The discovered page.  An element of the form is a record                *)
(*   tag      "input" | "select" | "textarea" | "button"                   *)
(*   type     the type attribute (<<>> when absent)                        *)
(*   name     the name attribute (<<>> when absent or empty)               *)
(*   hasValue, value   the value attribute                                 *)
(*   checked  whether the checked attribute is present                     *)
(*   label    the text of the <label for=id> of the element (<<>> if none) *)
(*   txt      the element's text content (textarea, button)                *)
(*   options  of a select: records [hasValue, value, selected]             *)
(* The page records whether it was fetched, whether it holds a form, the   *)
(* form's action attribute and the form's elements in document order.      *)

(* line 16; AIM_DIR is the URL up to its last path segment                 *)
AIM_DIR == "https://www.aim.env.uea.ac.uk/aim/model2/"
AIM_URL == "https://www.aim.env.uea.ac.uk/aim/model2/model2a.php"

(* line 72, for a reference that is a file name: it replaces the last path *)
(* segment of the base URL                                                 *)
UrlJoin(ref) == AIM_DIR \o ref

(* lines 71-72: the action attribute ("" when absent or empty) resolved    *)
(* against the page URL                                                    *)
ActionUrl(pg) == IF pg.action = "" THEN AIM_URL ELSE UrlJoin(pg.action)

FindAll(form, tags) == SelectSeq(form, LAMBDA e : e.tag \in tags)

ValueOr(e, dflt) == IF e.hasValue THEN e.value ELSE dflt

(* lines 86-93: the selected option's value, else the first option's       *)
SelectValue(e) ==
    LET sel == SelectSeq(e.options, LAMBDA o : o.selected) IN
    IF sel # <<>> /\ sel[1].hasValue THEN sel[1].value
    ELSE IF e.options # <<>> /\ e.options[1].hasValue THEN e.options[1].value
    ELSE <<>>

IsBox(itype) == itype \in {S_checkbox, S_radio}

(* lines 78-105: the contribution of one input/select/textarea             *)
SeedOne(p, e) ==
    IF e.name = <<>> THEN p
    ELSE IF e.tag = "textarea" THEN Put(p, e.name, e.txt)
    ELSE IF e.tag = "select" THEN Put(p, e.name, SelectValue(e))
    ELSE LET itype == Lower(IF e.type = <<>> THEN S_text ELSE e.type) IN
         IF IsBox(itype)
         THEN IF e.checked THEN Put(p, e.name, ValueOr(e, S_on)) ELSE p
         ELSE Put(p, e.name, ValueOr(e, <<>>))

RECURSIVE SeedFrom(_, _)
SeedFrom(p, elems) ==
    IF elems = <<>> THEN p ELSE SeedFrom(SeedOne(p, elems[1]), Tail(elems))

(* lines 75-105 *)
Seed(form) == SeedFrom(<<>>, FindAll(form, {"input", "select", "textarea"}))

(* lines 108-110 *)
ContainsAny(nlow, patterns) == \E q \in patterns : Contains(nlow, q)

match_name(n, patterns) == ContainsAny(Lower(n), patterns)

(* IsTempKey without the lower-casing of the field name                    *)
IsTempKey_CaseSensitive(k) ==
    ContainsAny(k, {S_temp, S_temperature, S_t_}) \/ k = S_t

(* line 113 *)
IsTempKey(k) ==
    match_name(k, {S_temp, S_temperature, S_t_}) \/ Lower(k) = S_t

IsRhKey(k) == match_name(k, {S_rh, S_humid, S_relative})

(* lines 112-116 *)
FillTempRh(p, t, h) ==
    [i \in 1..Len(p) |->
        IF IsTempKey(p[i][1]) THEN <<p[i][1], Str(t)>>
        ELSE IF IsRhKey(p[i][1]) THEN <<p[i][1], Str(h)>>
        ELSE p[i]]

WaterLike(klow) ==
    klow = S_water_var \/ Contains(klow, S_water_var) \/ Contains(klow, S_water)

(* line 120 *)
IsWaterKey(k) == WaterLike(Lower(k))

(* FillWater without the switch of interactive_type to RH mode             *)
FillWater_NoModeSwitch(p, h) ==
    IF \E k \in Keys(p) : IsWaterKey(k)
    THEN IF Has(p, S_water_var) THEN Put(p, S_water_var, Str(h))
         ELSE LET i == CHOOSE i \in 1..Len(p) :
                         /\ Contains(Lower(p[i][1]), S_water)
                         /\ \A j \in 1..(i - 1) : ~Contains(Lower(p[j][1]), S_water)
              IN Put(p, p[i][1], Str(h))
    ELSE p

(* lines 120-131 *)
FillWater(p, h) ==
    IF \E k \in Keys(p) : IsWaterKey(k)
    THEN LET q == IF Has(p, S_water_var) THEN Put(p, S_water_var, Str(h))
                  ELSE LET i == CHOOSE i \in 1..Len(p) :
                                  /\ Contains(Lower(p[i][1]), S_water)
                                  /\ \A j \in 1..(i - 1) :
                                        ~Contains(Lower(p[j][1]), S_water)
                       IN Put(p, p[i][1], Str(h))
         IN Put(q, S_interactive_type, S_2)
    ELSE p

(* line 134 *)
SpeciesLines(sp) ==
    Join([i \in 1..Len(sp) |-> sp[i][1] \o <<" ">> \o Str(sp[i][2])], <<"\n">>)

SpeciesKeys(sp) == {sp[i][1] : i \in 1..Len(sp)}

(* lines 137-141: the first payload key equal to the label, ignoring case  *)
FirstIndex(seq, x) ==
    IF \E i \in 1..Len(seq) : seq[i] = x
    THEN CHOOSE i \in 1..Len(seq) : seq[i] = x /\ \A j \in 1..(i - 1) : seq[j] # x
    ELSE 0

ExactKeyIndex(p, sname) ==
    FirstIndex([i \in 1..Len(p) |-> Lower(p[i][1])], Lower(sname))

RECURSIVE PlaceExact(_, _)
PlaceExact(p, sp) ==
    IF sp = <<>> THEN p
    ELSE LET i == ExactKeyIndex(p, sp[1][1]) IN
         PlaceExact(IF i = 0 THEN p ELSE Put(p, p[i][1], Str(sp[1][2])),
                    Tail(sp))

(* line 135-140: the labels placed by exact match *)
ExactPlaced(p, sp) == {k \in SpeciesKeys(sp) : ExactKeyIndex(p, k) # 0}

(* TextareaTarget without the break of line 153: the last such textarea   *)
TextareaTarget_LastMatch(form) ==
    LET tas == SelectSeq(FindAll(form, {"textarea"}),
                   LAMBDA e : /\ e.name # <<>>
                              /\ match_name(e.name, {S_species, S_conc,
                                                     S_concentration, S_input}))
    IN IF tas = <<>> THEN <<>> ELSE tas[Len(tas)].name

(* lines 145-153: the first named textarea that looks like a species input *)
TextareaTarget(form) ==
    LET tas == SelectSeq(FindAll(form, {"textarea"}),
                   LAMBDA e : /\ e.name # <<>>
                              /\ match_name(e.name, {S_species, S_conc,
                                                     S_concentration, S_input}))
    IN IF tas = <<>> THEN <<>> ELSE tas[1].name

(* GenericTarget with the name patterns of the textarea rule, "input" in   *)
(* the place of "mole"                                                     *)
GenericTarget_TextareaPatterns(p) ==
    LET ks == SelectSeq(p,
                  LAMBDA kv : match_name(kv[1], {S_species, S_conc,
                                                 S_concentration, S_input}))
    IN IF ks = <<>> THEN <<>> ELSE ks[1][1]

(* lines 157-161: the first payload key that looks like a species field    *)
GenericTarget(p) ==
    LET ks == SelectSeq(p,
                  LAMBDA kv : match_name(kv[1], {S_species, S_conc,
                                                 S_concentration, S_mole}))
    IN IF ks = <<>> THEN <<>> ELSE ks[1][1]

(* AddFallbackKeys without its two tests: the generic keys are added       *)
(* whether or not a field already looks like a temperature or a humidity   *)
AddFallbackKeys_Unconditional(p, t, h) ==
    SetDefault(SetDefault(SetDefault(p, S_Temperature, Str(t)), S_T, Str(t)),
               S_RH, Str(h))

(* lines 164-169 *)
AddFallbackKeys(p, t, h) ==
    LET q == IF ~\E k \in Keys(p) : IsTempKey(k)
             THEN SetDefault(SetDefault(p, S_Temperature, Str(t)), S_T, Str(t))
             ELSE p
    IN IF ~\E k \in Keys(q) : IsRhKey(k) THEN SetDefault(q, S_RH, Str(h)) ELSE q

(* lines 174-191: whether a named checkbox/radio input matches a solid     *)
SolidMatches(e, sol) ==
    /\ e.tag = "input"
    /\ IsBox(Lower(e.type))
    /\ e.name # <<>>
    /\ \E s \in {Lower(x) : x \in sol} :
          \/ Contains(Lower(e.name), s)
          \/ Contains(Lower(ValueOr(e, S_on)), s)
          \/ Contains(Lower(e.label), s)

(* CheckSolids stopping at the first field that matches a solid           *)
RECURSIVE CheckSolids_FirstFieldOnly(_, _, _)
CheckSolids_FirstFieldOnly(p, elems, sol) ==
    IF elems = <<>> THEN p
    ELSE IF SolidMatches(elems[1], sol)
         THEN Put(p, elems[1].name, ValueOr(elems[1], S_on))
         ELSE CheckSolids_FirstFieldOnly(p, Tail(elems), sol)

RECURSIVE CheckSolids(_, _, _)
CheckSolids(p, elems, sol) ==
    IF elems = <<>> THEN p
    ELSE CheckSolids(IF SolidMatches(elems[1], sol)
                     THEN Put(p, elems[1].name, ValueOr(elems[1], S_on))
                     ELSE p,
                     Tail(elems), sol)

(* lines 172-193 *)
FillSolids(p, form, sol) ==
    IF sol # {} THEN CheckSolids(p, FindAll(form, {"input"}), sol) ELSE p

SolidNames(form, sol) ==
    IF sol # {}
    THEN {form[i].name : i \in {j \in 1..Len(form) : SolidMatches(form[j], sol)}}
    ELSE {}

(* lines 198-201 *)
IsSubmitControl(e) ==
    /\ e.tag \in {"input", "button"}
    /\ (Lower(e.type) = S_submit \/ e.tag = "button")

SubmitValue(e) ==
    IF e.hasValue /\ e.value # <<>> THEN e.value
    ELSE IF Strip(e.txt) # <<>> THEN Strip(e.txt)
    ELSE S_Run

(* AddSubmit with the generic pair assigned instead of set by default      *)
AddSubmit_Overwrite(p, form) ==
    LET btns == SelectSeq(form, LAMBDA e : IsSubmitControl(e) /\ e.name # <<>>) IN
    IF btns # <<>> THEN Put(p, btns[1].name, SubmitValue(btns[1]))
    ELSE Put(p, S_submit, S_RunModel)

(* lines 196-207 *)
AddSubmit(p, form) ==
    LET btns == SelectSeq(form, LAMBDA e : IsSubmitControl(e) /\ e.name # <<>>) IN
    IF btns # <<>> THEN Put(p, btns[1].name, SubmitValue(btns[1]))
    ELSE SetDefault(p, S_submit, S_RunModel)

(* lines 144-153: the textarea fallback, on the payload p left by the      *)
(* exact placement, of which p2 is the payload before it                   *)
PlaceTextarea(p, p2, form, sp) ==
    IF SpeciesLines(sp) # <<>> /\ ExactPlaced(p2, sp) = {}
    THEN TextareaTarget(form) ELSE <<>>

(* lines 156-161: the generic-field fallback, ta the textarea chosen       *)
PlaceGeneric(p, p2, ta, sp) ==
    IF SpeciesLines(sp) # <<>> /\ ExactPlaced(p2, sp) = {} /\ ta = <<>>
    THEN GenericTarget(p) ELSE <<>>

PutIf(p, k, v) == IF k # <<>> THEN Put(p, k, v) ELSE p

(* lines 133-161: the three species rules, from the payload p2             *)
PlaceSpecies(p2, form, sp) ==
    LET Generic(p4, ta) ==
            LET Done(gen) ==
                    [payload |-> PutIf(p4, gen, SpeciesLines(sp)),
                     placedBy |-> [exact |-> ExactPlaced(p2, sp),
                                   textarea |-> ta, generic |-> gen]]
            IN Done(PlaceGeneric(p4, p2, ta, sp))
        Textarea(p3) ==
            LET With(ta) == Generic(PutIf(p3, ta, SpeciesLines(sp)), ta)
            IN With(PlaceTextarea(p3, p2, form, sp))
    IN Textarea(PlaceExact(p2, sp))

(* lines 163-207: the rules after the species placement                    *)
Finish(placed, form, t, h, sol) ==
    [payload |-> AddSubmit(FillSolids(AddFallbackKeys(placed.payload, t, h),
                                      form, sol), form),
     placedBy |-> placed.placedBy,
     solidFields |-> SolidNames(form, sol)]

(* lines 75-207: the payload post_to_aim builds for a discovered form,     *)
(* with the fields the species rules and the solids rule wrote             *)
MapFields(form, t, h, sp, sol) ==
    Finish(PlaceSpecies(FillWater(FillTempRh(Seed(form), t, h), h), form, sp),
           form, t, h, sol)

(* lines 25-41 *)
RECURSIVE AddSpecies(_, _)
AddSpecies(p, sp) ==
    IF sp = <<>> THEN p
    ELSE AddSpecies(Put(p, Strip(sp[1][1]), Str(sp[1][2])), Tail(sp))

(* build_payload with the species keyed first, so that the three generic   *)
(* entries are skipped when they come second: "T" is left out              *)
build_payload_WithoutT(t, h, sp) ==
    SetDefault(
        AddSpecies(<<<<S_Temperature, Str(t)>>, <<S_RH, Str(h)>>>>, sp),
        S_submit, S_RunModel)

build_payload(t, h, sp) ==
    SetDefault(
        AddSpecies(<<<<S_Temperature, Str(t)>>, <<S_T, Str(t)>>, <<S_RH, Str(h)>>>>, sp),
        S_submit, S_RunModel)
----------------------------------------------------------------------------
(* The response parser.                                                    *)

(* line 269: the length of the raw excerpt *)
RawLimit == 2000

(* \d of the regular expressions *)
DigitSet == {DigitChars[i] : i \in 1..10}
(* line 258: the character class of a name *)
NameSet == Letters \cup DigitSet \cup {"_", "+", "-", "(", ")", "[", "]", "/"}
(* \w of the regular expressions *)
WordSet == Letters \cup DigitSet \cup {"_"}

IsWordChar(c) == c \in WordSet

At(s, i) == IF i >= 1 /\ i <= Len(s) THEN s[i] ELSE ""

(* the position after the run of characters of the set Class from i on     *)
RunEnd(s, i, Class) ==
    IF i > Len(s) THEN i
    ELSE CHOOSE j \in i..(Len(s) + 1) :
            /\ \A k \in i..(j - 1) : s[k] \in Class
            /\ (j <= Len(s) => s[j] \notin Class)

(* [^:=\n], and the characters of a line *)
LabelSet == Alphabet \ {":", "=", "\n"}
LineSet == Alphabet \ {"\n"}

(* line 224, _NUMBER = [+-]?\d*\.?\d+(?:[Ee][+-]?\d+)?                     *)
(* The positions at which a match of _NUMBER that starts at i can end      *)
(* (a position is the index after the last character consumed).            *)
MantissaEnds(s, a) ==
    LET d == RunEnd(s, a, DigitSet)
        f == RunEnd(s, d + 1, DigitSet)
    IN (a + 1)..d \cup (IF At(s, d) = "." THEN (d + 2)..f ELSE {})

ExponentEnds(s, b) ==
    IF At(s, b) \in {"E", "e"}
    THEN LET c == IF At(s, b + 1) \in {"+", "-"} THEN b + 2 ELSE b + 1
         IN {b} \cup (c + 1)..RunEnd(s, c, DigitSet)
    ELSE {b}

NumberEnds(s, i) ==
    LET starts == {i} \cup (IF At(s, i) \in {"+", "-"} THEN {i + 1} ELSE {})
    IN UNION {UNION {ExponentEnds(s, b) : b \in MantissaEnds(s, a)} : a \in starts}

SetMax(S) == CHOOSE x \in S : \A y \in S : y <= x

(* the greedy match of _NUMBER at i: the position after it, 0 if none      *)
NumberEnd(s, i) == IF NumberEnds(s, i) = {} THEN 0 ELSE SetMax(NumberEnds(s, i))

RECURSIVE DigitsValue(_)
DigitsValue(ds) ==
    IF ds = <<>> THEN 0
    ELSE 10 * DigitsValue(SubSeq(ds, 1, Len(ds) - 1))
         + (CHOOSE v \in 0..9 : DigitChars[v + 1] = ds[Len(ds)])

RECURSIVE Normal(_, _)
Normal(m, e) ==
    IF m = 0 THEN <<0, 0>>
    ELSE IF m % 10 = 0 THEN Normal(m \div 10, e + 1) ELSE <<m, e>>

(* float(tok) of a literal matched by _NUMBER, as <<m, e>> for m * 10^e,   *)
(* m not a multiple of 10 (<<0, 0>> for zero)                              *)
ToFloat(tok) ==
    LET neg == At(tok, 1) = "-"
        a == IF At(tok, 1) \in {"+", "-"} THEN 2 ELSE 1
        d == RunEnd(tok, a, DigitSet)
        f == IF At(tok, d) = "." THEN RunEnd(tok, d + 1, DigitSet) ELSE d
        frac == IF At(tok, d) = "." THEN SubSeq(tok, d + 1, f - 1) ELSE <<>>
        eneg == At(tok, f + 1) = "-"
        c == IF At(tok, f + 1) \in {"+", "-"} THEN f + 2 ELSE f + 1
        ex == IF At(tok, f) \in {"E", "e"}
              THEN DigitsValue(SubSeq(tok, c, Len(tok))) ELSE 0
        n == Normal(DigitsValue(SubSeq(tok, a, d - 1) \o frac),
                    (IF eneg THEN 0 - ex ELSE ex) - Len(frac))
    IN <<IF neg THEN 0 - n[1] ELSE n[1], n[2]>>

MatchesAt(s, i, lit) ==
    i + Len(lit) - 1 <= Len(s) /\ Lower(SubSeq(s, i, i + Len(lit) - 1)) = lit

(* the tail  [^:=\n]*[:=]\s*(_NUMBER)  of both scalar patterns, matched    *)
(* from i: the captured literal as <<first, last>>, <<>> if no match       *)
ScalarTail(s, i) ==
    LET sep == RunEnd(s, i, LabelSet)
        num == RunEnd(s, sep + 1, SpaceChars)
        e == NumberEnd(s, num)
    IN IF At(s, sep) \in {":", "="} /\ e # 0 THEN <<num, e - 1>> ELSE <<>>

(* line 239: total\s+gibbs...  attempted at position i                     *)
GibbsAt(s, i) ==
    LET w == RunEnd(s, i + 5, SpaceChars) IN
    IF MatchesAt(s, i, S_total) /\ w > i + 5 /\ MatchesAt(s, w, S_gibbs)
    THEN ScalarTail(s, w + 5) ELSE <<>>

(* line 244: \bph\b...  attempted at position i                            *)
PhAt(s, i) ==
    IF /\ MatchesAt(s, i, S_ph)
       /\ ~IsWordChar(At(s, i - 1))
       /\ ~IsWordChar(At(s, i + 2))
    THEN ScalarTail(s, i + 2) ELSE <<>>

(* re.search: the leftmost position at which the pattern matches           *)
PatAt(pat, s, i) == IF pat = "gibbs" THEN GibbsAt(s, i) ELSE PhAt(s, i)

Search(s, pat) ==
    LET hits == {i \in 1..Len(s) : PatAt(pat, s, i) # <<>>} IN
    IF hits = {} THEN <<>>
    ELSE LET g == PatAt(pat, s, CHOOSE i \in hits : \A j \in hits : i <= j)
         IN SubSeq(s, g[1], g[2])

(* str.splitlines() *)
RECURSIVE SplitLines(_)
SplitLines(s) ==
    IF s = <<>> THEN <<>>
    ELSE LET n == RunEnd(s, 1, LineSet) IN
         <<SubSeq(s, 1, n - 1)>> \o SplitLines(SubSeq(s, n + 1, Len(s)))

(* TableMatch without the closing anchor: the number need only start the   *)
(* rest of the line                                                        *)
TableMatch_Unanchored(line) ==
    LET n == RunEnd(line, 1, NameSet)
        v == RunEnd(line, n, SpaceChars)
    IN IF n > 1 /\ v > n /\ NumberEnd(line, v) # 0
       THEN <<SubSeq(line, 1, n - 1), SubSeq(line, v, NumberEnd(line, v) - 1)>>
       ELSE <<>>

(* line 258: ^([A-Za-z0-9_+\-()\[\]/]+)\s+(_NUMBER)$ on a stripped line:   *)
(* <<name, literal>>, <<>> if the line does not match                      *)
TableMatch(line) ==
    LET n == RunEnd(line, 1, NameSet)
        v == RunEnd(line, n, SpaceChars)
    IN IF n > 1 /\ v > n /\ (Len(line) + 1) \in NumberEnds(line, v)
       THEN <<SubSeq(line, 1, n - 1), SubSeq(line, v, Len(line))>>
       ELSE <<>>

(* lines 252-262 *)
RECURSIVE Molarities(_, _)
Molarities(mol, lines) ==
    IF lines = <<>> THEN mol
    ELSE LET line == Strip(lines[1])
             m == TableMatch(line)
         IN Molarities(IF line # <<>> /\ m # <<>>
                       THEN Put(mol, m[1], ToFloat(m[2])) ELSE mol,
                       Tail(lines))

Excerpt(s, n) == SubSeq(s, 1, IF Len(s) < n THEN Len(s) ELSE n)

(* lines 239-241: the first scalar, g the literal found or <<>>            *)
WithGibbs(r, g) ==
    IF g # <<>> THEN Put(r, "Total Gibbs Free Energy", ToFloat(g)) ELSE r

(* lines 244-249: the second scalar *)
WithPh(r, h) == IF h # <<>> THEN Put(r, "pH", ToFloat(h)) ELSE r

(* lines 264-265: the table is stored when it has an entry *)
WithMolarities(r, molarities) ==
    IF molarities # <<>> THEN Put(r, "molarities", molarities) ELSE r

(* lines 268-269: the raw excerpt is stored when nothing else was *)
WithRaw(r, txt) == IF r = <<>> THEN Put(r, "raw", Excerpt(txt, RawLimit)) ELSE r

(* the raw excerpt decided by the table alone: it is stored whenever no    *)
(* molarities were found, scalars or not                                   *)
RawBesideScalars(r, molarities, txt) ==
    IF molarities # <<>> THEN Put(r, "molarities", molarities)
    ELSE Put(r, "raw", Excerpt(txt, RawLimit))

parse_aim_output_RawBesideScalars(txt) ==
    RawBesideScalars(WithPh(WithGibbs(<<>>, Search(txt, "gibbs")),
                            Search(txt, "ph")),
                     Molarities(<<>>, SplitLines(txt)), txt)

(* lines 227-271 *)
parse_aim_output(txt) ==
    WithRaw(WithMolarities(WithPh(WithGibbs(<<>>, Search(txt, "gibbs")),
                                  Search(txt, "ph")),
                           Molarities(<<>>, SplitLines(txt))),
            txt)

(* lines 215-221: the response is its sequence of text blocks, each        *)
(* [tag, txt]; the first <pre>, else all the text                          *)
extract_pre_text(h) ==
    LET pres == SelectSeq(h, LAMBDA b : b.tag = "pre") IN
    IF pres # <<>> THEN pres[1].txt
    ELSE Join([i \in 1..Len(h) |-> h[i].txt], <<"\n">>)
----------------------------------------------------------------------------
(* The elements a discovered form is made of.                              *)

E_temp ==
    [tag |-> "input", type |-> <<"t", "e", "x", "t">>, name |-> <<"T", "e", "m", "p", "(", "K", ")">>,
     hasValue |-> TRUE, value |-> <<"2", "9", "8">>, checked |-> FALSE,
     label |-> <<>>, txt |-> <<>>,
     options |-> <<>>]

E_water ==
    [tag |-> "input", type |-> <<>>, name |-> <<"w", "a", "t", "e", "r", "_", "v", "a", "r">>,
     hasValue |-> FALSE, value |-> <<>>, checked |-> FALSE,
     label |-> <<>>, txt |-> <<>>,
     options |-> <<>>]

E_waterbox ==
    [tag |-> "input", type |-> <<"c", "h", "e", "c", "k", "b", "o", "x">>, name |-> <<"w", "a", "t", "e", "r", "_", "v", "a", "r">>,
     hasValue |-> FALSE, value |-> <<>>, checked |-> FALSE,
     label |-> <<>>, txt |-> <<>>,
     options |-> <<>>]

E_species ==
    [tag |-> "textarea", type |-> <<>>, name |-> <<"s", "p", "e", "c", "i", "e", "s", "_", "i", "n", "p", "u", "t">>,
     hasValue |-> FALSE, value |-> <<>>, checked |-> FALSE,
     label |-> <<>>, txt |-> <<"o", "l", "d">>,
     options |-> <<>>]

E_input ==
    [tag |-> "textarea", type |-> <<>>, name |-> <<"C", "o", "n", "c", "_", "I", "n", "p", "u", "t">>,
     hasValue |-> FALSE, value |-> <<>>, checked |-> FALSE,
     label |-> <<>>, txt |-> <<>>,
     options |-> <<>>]

E_moles ==
    [tag |-> "textarea", type |-> <<>>, name |-> <<"m", "o", "l", "e", "s">>,
     hasValue |-> FALSE, value |-> <<>>, checked |-> FALSE,
     label |-> <<>>, txt |-> <<>>,
     options |-> <<>>]

E_concs ==
    [tag |-> "input", type |-> <<"t", "e", "x", "t">>, name |-> <<"c", "o", "n", "c", "s">>,
     hasValue |-> TRUE, value |-> <<>>, checked |-> FALSE,
     label |-> <<>>, txt |-> <<>>,
     options |-> <<>>]

E_solid1 ==
    [tag |-> "input", type |-> <<"c", "h", "e", "c", "k", "b", "o", "x">>, name |-> <<"s", "o", "l", "i", "d", "1">>,
     hasValue |-> TRUE, value |-> <<"I", "c", "e">>, checked |-> FALSE,
     label |-> <<"I", "n", "c", "l", "u", "d", "e", " ", "i", "c", "e">>, txt |-> <<>>,
     options |-> <<>>]

E_ice_b ==
    [tag |-> "input", type |-> <<"R", "a", "d", "i", "o">>, name |-> <<"i", "c", "e", "_", "b">>,
     hasValue |-> FALSE, value |-> <<>>, checked |-> FALSE,
     label |-> <<>>, txt |-> <<>>,
     options |-> <<>>]

E_run ==
    [tag |-> "input", type |-> <<"s", "u", "b", "m", "i", "t">>, name |-> <<"r", "u", "n">>,
     hasValue |-> TRUE, value |-> <<"S", "t", "a", "r", "t">>, checked |-> FALSE,
     label |-> <<>>, txt |-> <<>>,
     options |-> <<>>]

E_button ==
    [tag |-> "button", type |-> <<>>, name |-> <<"g", "o">>,
     hasValue |-> FALSE, value |-> <<>>, checked |-> FALSE,
     label |-> <<>>, txt |-> <<" ", "G", "o", " ">>,
     options |-> <<>>]

E_hidden ==
    [tag |-> "input", type |-> <<"h", "i", "d", "d", "e", "n">>, name |-> <<"s", "u", "b", "m", "i", "t">>,
     hasValue |-> TRUE, value |-> <<"g", "o">>, checked |-> FALSE,
     label |-> <<>>, txt |-> <<>>,
     options |-> <<>>]

E_rh ==
    [tag |-> "select", type |-> <<>>, name |-> <<"r", "h">>,
     hasValue |-> FALSE, value |-> <<>>, checked |-> FALSE,
     label |-> <<>>, txt |-> <<>>,
     options |-> <<[hasValue |-> TRUE, value |-> <<"0", ".", "5">>, selected |-> FALSE],
                   [hasValue |-> TRUE, value |-> <<"0", ".", "9">>, selected |-> TRUE]>>]

Pool == {E_temp, E_water, E_waterbox, E_species, E_input, E_moles, E_concs,
         E_solid1, E_ice_b, E_run, E_button, E_hidden, E_rh}

Forms == UNION {[1..n -> Pool] : n \in 0..MaxFields}

(* the action attribute of a form: absent, or a file name; the forms that  *)
(* carry one have one field less than the others                           *)
Actions == {"", "calc.php"}

ActionForms == UNION {[1..n -> Pool] : n \in 0..(MaxFields - 1)}

(* the page before the GET returned, a page without a form, the pages with *)
(* a form                                                                  *)
NotFetched == [fetched |-> FALSE, hasForm |-> FALSE, action |-> "", form |-> <<>>]

NoFormPage == [fetched |-> TRUE, hasForm |-> FALSE, action |-> "", form |-> <<>>]

FormPages ==
    {[fetched |-> TRUE, hasForm |-> TRUE, action |-> "", form |-> f] : f \in Forms}
    \cup {[fetched |-> TRUE, hasForm |-> TRUE, action |-> a, form |-> f] :
             a \in Actions \ {""}, f \in ActionForms}

(* The parameters of an invocation.                                        *)

S_Na == <<"N", "a", "+">>
S_Cl == <<"C", "l", "-">>
S_tempk == <<"t", "e", "m", "p", "(", "k", ")">>
S_Ice == <<"I", "c", "e">>
S_NaCl == <<"N", "a", "C", "l">>

Temperatures == {2981}
Humidities == {5, 10}
Labels == {S_Na, S_Cl, S_tempk}
Concentration(label) == IF label = S_Cl THEN 2 ELSE 1
SolidSets == {{}, {S_NaCl, S_Ice}}

(* a species dict: distinct labels with their values, in insertion order *)
SpeciesOf(ls) == [i \in 1..Len(ls) |-> <<ls[i], Concentration(ls[i])>>]

SpeciesMaps ==
    {SpeciesOf(ls) : ls \in {<<>>, <<S_Na>>, <<S_Na, S_Cl>>, <<S_Cl, S_Na>>,
                             <<S_tempk>>, <<S_Na, S_tempk>>}}

(* The lines and texts the remote service answers with.                    *)

L_gibbs == <<"T", "o", "t", "a", "l", " ", "G", "i", "b", "b", "s", " ", "F", "r", "e", "e", " ", "E", "n", "e", "r", "g", "y", " ", "=", " ", "-", "1", "2", "3", ".", "4", "5", "6">>
L_ph == <<"p", "H", " ", "=", " ", "4", ".", "5", "6">>
L_h == <<"H", "+", " ", " ", " ", " ", "1", ".", "2", "3", "E", "-", "0", "7">>
L_na == <<"N", "a", "+", " ", " ", " ", "0", ".", "1">>
L_na2 == <<"N", "a", "+", " ", "0", ".", "2", "0">>
L_trailing == <<"N", "a", "+", " ", "0", ".", "1", " ", "M">>
L_padded == <<" ", " ", "C", "l", "-", " ", ".", "5", " ", " ">>
L_empty == <<>>
L_words == <<"h", "e", "l", "l", "o", " ", "w", "o", "r", "l", "d">>
L_alpha == <<"a", "l", "p", "h", "a", ":", " ", "1">>
L_total == <<"T", "O", "T", "A", "L">>
L_gibbs2 == <<"g", "i", "b", "b", "s", ":", " ", "2">>
L_phopen == <<"p", "H", " ", "=">>
L_seven == <<"7">>
L_dot == <<"x", " ", "1", ".">>

LinePool == {L_gibbs, L_ph, L_h, L_na, L_na2,
             L_trailing, L_padded, L_empty, L_words, L_alpha,
             L_total, L_gibbs2, L_phopen, L_seven, L_dot}

Texts == {Join(ls, <<"\n">>) : ls \in UNION {[1..n -> LinePool] : n \in 0..MaxLines}}

Responses ==
    {<<[tag |-> "p", txt |-> L_seven],
       [tag |-> "pre", txt |-> Join(<<L_gibbs, L_ph, L_h>>, <<"\n">>)]>>,
     <<[tag |-> "p", txt |-> L_words], [tag |-> "p", txt |-> L_trailing]>>}
----------------------------------------------------------------------------
(* The main window as constructed (gui.py lines 55-160): Run enabled,      *)
(* Export disabled, progress hidden, no result (None, written <<>>), no    *)
(* worker.                                                                 *)
WindowInit ==
    /\ run_btn = TRUE
    /\ export_btn = FALSE
    /\ progress = FALSE
    /\ current_results = <<>>
    /\ workers = <<>>

----------------------------------------------------------------------------
(* run_and_parse as a state machine: the two network calls are the steps.  *)

Init ==
    /\ pc = "start"
    /\ temperature_k \in Temperatures
    /\ rh \in Humidities
    /\ species \in SpeciesMaps
    /\ solids \in SolidSets
    /\ page = NotFetched
    /\ payload = <<>>
    /\ placedBy = [exact |-> {}, textarea |-> <<>>, generic |-> <<>>]
    /\ solidFields = {}
    /\ calls = <<>>
    /\ html = <<>>
    /\ text = <<>>
    /\ results = <<>>
    /\ WindowInit

(* GetFail without raise_for_status: the failed GET is taken for a page    *)
(* without a form, and the invocation goes on to the POST                  *)
GetFail_NotRaised ==
    /\ pc = "start"
    /\ calls' = Append(calls, [method |-> "GET", url |-> AIM_URL, ok |-> FALSE])
    /\ page' = NoFormPage
    /\ payload' = build_payload(temperature_k, rh, species)
    /\ pc' = "posting"
    /\ UNCHANGED <<temperature_k, rh, species, solids, placedBy, solidFields,
                   html, text, results>>
    /\ UNCHANGED window

(* lines 59-60: the GET fails (transport error or non-success status)      *)
GetFail ==
    /\ pc = "start"
    /\ calls' = Append(calls, [method |-> "GET", url |-> AIM_URL, ok |-> FALSE])
    /\ pc' = "error"
    /\ UNCHANGED <<temperature_k, rh, species, solids, page, payload, placedBy,
                   solidFields, html, text, results>>
    /\ UNCHANGED window

(* lines 59-65: the page holds no form *)
GetNoForm ==
    /\ pc = "start"
    /\ calls' = Append(calls, [method |-> "GET", url |-> AIM_URL, ok |-> TRUE])
    /\ page' = NoFormPage
    /\ payload' = build_payload(temperature_k, rh, species)
    /\ pc' = "posting"
    /\ UNCHANGED <<temperature_k, rh, species, solids, placedBy, solidFields,
                   html, text, results>>
    /\ UNCHANGED window

(* lines 59-207: the page holds a form; the payload is mapped from it      *)
GetForm ==
    /\ pc = "start"
    /\ \E pg \in FormPages :
          \E m \in {MapFields(pg.form, temperature_k, rh, species, solids)} :
          /\ page' = pg
          /\ payload' = m.payload
          /\ placedBy' = m.placedBy
          /\ solidFields' = m.solidFields
    /\ calls' = Append(calls, [method |-> "GET", url |-> AIM_URL, ok |-> TRUE])
    /\ pc' = "posting"
    /\ UNCHANGED <<temperature_k, rh, species, solids, html, text, results>>
    /\ UNCHANGED window

PostUrl == IF page.hasForm THEN ActionUrl(page) ELSE AIM_URL

(* lines 66-67, 210-211: the POST fails *)
PostFail ==
    /\ pc = "posting"
    /\ calls' = Append(calls, [method |-> "POST", url |-> PostUrl, ok |-> FALSE])
    /\ pc' = "error"
    /\ UNCHANGED <<temperature_k, rh, species, solids, page, payload, placedBy,
                   solidFields, html, text, results>>
    /\ UNCHANGED window

(* lines 281-282, tabulated over the responses; pre_text is not kept      *)
ResultOf == [h \in Responses |-> parse_aim_output(extract_pre_text(h))]

(* lines 66-68, 210-212, 280-282: the POST succeeds and its body is parsed *)
PostOk ==
    /\ pc = "posting"
    /\ \E h \in Responses :
          /\ html' = h
          /\ results' = ResultOf[h]
    /\ calls' = Append(calls, [method |-> "POST", url |-> PostUrl, ok |-> TRUE])
    /\ pc' = "done"
    /\ UNCHANGED <<temperature_k, rh, species, solids, page, payload, placedBy,
                   solidFields, text>>
    /\ UNCHANGED window

Next == GetFail \/ GetNoForm \/ GetForm \/ PostFail \/ PostOk

Spec == Init /\ [][Next]_vars

(* parse_aim_output alone, on every text of the bounded set.               *)

InitParse ==
    /\ pc = "text"
    /\ text \in Texts
    /\ temperature_k = 0
    /\ rh = 0
    /\ species = <<>>
    /\ solids = {}
    /\ page = NotFetched
    /\ payload = <<>>
    /\ placedBy = [exact |-> {}, textarea |-> <<>>, generic |-> <<>>]
    /\ solidFields = {}
    /\ calls = <<>>
    /\ html = <<>>
    /\ results = <<>>
    /\ WindowInit

ParseText ==
    /\ pc = "text"
    /\ results' = parse_aim_output(text)
    /\ pc' = "parsed"
    /\ UNCHANGED <<temperature_k, rh, species, solids, page, payload, placedBy,
                   solidFields, calls, html, text>>
    /\ UNCHANGED window

NextParse == ParseText

SpecParse == InitParse /\ [][NextParse]_vars

----------------------------------------------------------------------------
(* The main window and its workers (gui.py).  A worker is a record         *)
(*   temp, rh  the spin box values it was created with, in hundredths      *)
(*   status    "running": run() has not emitted yet; "emitted": its signal *)
(*             is queued for the UI thread; "delivered": the connected     *)
(*             slot has run                                                *)
(*   signal    "result_ready" or "error" once emitted, "" before           *)
(*   value     the result carried by result_ready, <<>> otherwise          *)
(* The species table and the solid check boxes are read by on_run as well; *)
(* they only bear on the outcome of run_and_parse, which a worker step     *)
(* chooses among the outcomes of the client.                               *)

(* lines 72-73 and 79-81: values the spin boxes can hold, in hundredths    *)
TempSpinValues == {29815}
RhSpinValues == {10, 50, 100}

(* on_run without line 218: the Run button stays enabled while the worker  *)
(* runs                                                                    *)
on_run_RunLeftEnabled ==
    /\ pc = "window"
    /\ run_btn
    /\ Len(workers) < MaxRuns
    /\ \E t \in TempSpinValues, r \in RhSpinValues :
          IF r < 10 \/ r > 100
          THEN UNCHANGED window
          ELSE /\ export_btn' = FALSE
               /\ progress' = TRUE
               /\ workers' = Append(workers,
                                [temp |-> t, rh |-> r, status |-> "running",
                                 signal |-> "", value |-> <<>>])
               /\ UNCHANGED <<run_btn, current_results>>
    /\ UNCHANGED client

(* lines 138, 210-226: a click on the Run button; a disabled button emits  *)
(* no clicked signal                                                       *)
on_run ==
    /\ pc = "window"
    /\ run_btn
    /\ Len(workers) < MaxRuns
    /\ \E t \in TempSpinValues, r \in RhSpinValues :
          IF r < 10 \/ r > 100
          THEN UNCHANGED window
          ELSE /\ run_btn' = FALSE
               /\ export_btn' = FALSE
               /\ progress' = TRUE
               /\ workers' = Append(workers,
                                [temp |-> t, rh |-> r, status |-> "running",
                                 signal |-> "", value |-> <<>>])
               /\ UNCHANGED current_results
    /\ UNCHANGED client

(* lines 48-49: run_and_parse returned, the worker emits result_ready      *)
WorkerResult ==
    /\ pc = "window"
    /\ \E i \in 1..Len(workers) : \E h \in Responses :
          /\ workers[i].status = "running"
          /\ workers' = [workers EXCEPT ![i].status = "emitted",
                                        ![i].signal = "result_ready",
                                        ![i].value = ResultOf[h]]
    /\ UNCHANGED <<run_btn, export_btn, progress, current_results>>
    /\ UNCHANGED client

(* lines 50-51: run_and_parse raised, the worker emits error               *)
WorkerError ==
    /\ pc = "window"
    /\ \E i \in 1..Len(workers) :
          /\ workers[i].status = "running"
          /\ workers' = [workers EXCEPT ![i].status = "emitted",
                                        ![i].signal = "error"]
    /\ UNCHANGED <<run_btn, export_btn, progress, current_results>>
    /\ UNCHANGED client

(* lines 224, 228-233: the UI thread runs the slot of a queued             *)
(* result_ready                                                            *)
on_result ==
    /\ pc = "window"
    /\ \E i \in 1..Len(workers) :
          /\ workers[i].status = "emitted"
          /\ workers[i].signal = "result_ready"
          /\ progress' = FALSE
          /\ run_btn' = TRUE
          /\ current_results' = workers[i].value
          /\ export_btn' = TRUE
          /\ workers' = [workers EXCEPT ![i].status = "delivered"]
    /\ UNCHANGED client

(* lines 225, 235-238: the UI thread runs the slot of a queued error       *)
on_error ==
    /\ pc = "window"
    /\ \E i \in 1..Len(workers) :
          /\ workers[i].status = "emitted"
          /\ workers[i].signal = "error"
          /\ progress' = FALSE
          /\ run_btn' = TRUE
          /\ workers' = [workers EXCEPT ![i].status = "delivered"]
    /\ UNCHANGED <<export_btn, current_results>>
    /\ UNCHANGED client

InitWindow ==
    /\ pc = "window"
    /\ temperature_k = 0
    /\ rh = 0
    /\ species = <<>>
    /\ solids = {}
    /\ page = NotFetched
    /\ payload = <<>>
    /\ placedBy = [exact |-> {}, textarea |-> <<>>, generic |-> <<>>]
    /\ solidFields = {}
    /\ calls = <<>>
    /\ html = <<>>
    /\ text = <<>>
    /\ results = <<>>
    /\ WindowInit

NextWindow == on_run \/ WorkerResult \/ WorkerError \/ on_result \/ on_error

SpecWindow == InitWindow /\ [][NextWindow]_vars
----------------------------------------------------------------------------
(* Properties.                                                             *)

(* the POST was issued: payload is what post_to_aim submitted *)
Posted == Len(calls) = 2

FormNames(form) == {form[i].name : i \in 1..Len(form)} \ {<<>>}

IsUncheckedBox(e) == e.tag = "input" /\ IsBox(Lower(e.type)) /\ ~e.checked

(* the names of the fields whose default value starts the payload *)
SeededNames(form) ==
    {form[i].name : i \in {j \in 1..Len(form) :
                              /\ form[j].tag # "button"
                              /\ ~IsUncheckedBox(form[j])}} \ {<<>>}

NamedSubmitControls(form) ==
    {i \in 1..Len(form) : IsSubmitControl(form[i]) /\ form[i].name # <<>>}

(* the name of the control the submit rule writes, <<>> if it writes the   *)
(* generic pair                                                            *)
SubmitName(form) ==
    IF NamedSubmitControls(form) = {} THEN <<>>
    ELSE form[CHOOSE i \in NamedSubmitControls(form) :
                 \A j \in NamedSubmitControls(form) : i <= j].name

(* no rule after the temperature/humidity/water rules writes the field k:  *)
(* no species label equals k ignoring case, the solids rule does not set a *)
(* checkbox or radio named k, and the submit control is not named k        *)
NotWrittenLater(k) ==
    /\ \A l \in SpeciesKeys(species) : Lower(l) # Lower(k)
    /\ k \notin solidFields
    /\ SubmitName(page.form) # k

(* C1: the result of parse_aim_output holds 'raw' if and only if it holds  *)
(* none of 'Total Gibbs Free Energy', 'pH' and 'molarities'.               *)
C1_RawIffNothingFound ==
    pc \in {"parsed", "done"} =>
        (Has(results, "raw") <=>
            ~(\/ Has(results, "Total Gibbs Free Energy")
              \/ Has(results, "pH")
              \/ Has(results, "molarities")))

C1_Witness ==
    /\ pc = "parsed"
    /\ text = Join(<<L_words, L_trailing>>, <<"\n">>)
    /\ Keys(results) = {"raw"}

(* C2 as stated: with a form discovered, every key of the submitted        *)
(* payload is the name of a field of the form.                             *)
C2_OnlyFormNames ==
    (Posted /\ page.hasForm) => Keys(payload) \subseteq FormNames(page.form)

(* C2, amended: with a form discovered, every key of the submitted payload *)
(* is the name of a field of the form or a key the rule chain adds itself: *)
(* Temperature and T only when no seeded field looks like a temperature,   *)
(* RH only when none looks like a humidity, interactive_type only when a   *)
(* seeded field is water-like, submit only when the form has no named      *)
(* submit control.                                                         *)
C2_FormOrAddedNames ==
    (Posted /\ page.hasForm) =>
        \A k \in Keys(payload) \ FormNames(page.form) :
            \/ /\ k \in {S_Temperature, S_T}
               /\ \A n \in SeededNames(page.form) : ~IsTempKey(n)
            \/ /\ k = S_RH
               /\ \A n \in SeededNames(page.form) : ~IsRhKey(n)
            \/ /\ k = S_interactive_type
               /\ \E n \in SeededNames(page.form) : IsWaterKey(n)
            \/ /\ k = S_submit
               /\ NamedSubmitControls(page.form) = {}

C2_Witness ==
    /\ Posted /\ page.hasForm
    /\ page.form = <<E_temp, E_water>>
    /\ Keys(payload) \ FormNames(page.form) = {S_RH, S_interactive_type, S_submit}

(* the name of the temperature field of the remote form *)
S_TempK == <<"T", "e", "m", "p", "(", "K", ")">>

HasTempField(form) ==
    \E i \in 1..Len(form) :
        form[i].tag = "input" /\ form[i].type = S_text /\ form[i].name = S_TempK

(* C3 as stated: a text field named "Temp(K)" holds str(temperature_k) in  *)
(* the submitted payload, whatever the other parameters are.               *)
C3_TempFieldAlways ==
    (Posted /\ page.hasForm /\ HasTempField(page.form)) =>
        (Has(payload, S_TempK) /\ Get(payload, S_TempK) = Str(temperature_k))

(* C3, amended: a text field named "Temp(K)", at any position, holds       *)
(* str(temperature_k) in the submitted payload provided no later rule      *)
(* targets that name: no species label equals "Temp(K)" ignoring case      *)
(* (the exact-match rule would store that concentration) and no checkbox,  *)
(* radio or submit control shares the name.                                *)
C3_TempFieldUnlessTargeted ==
    (Posted /\ page.hasForm /\ HasTempField(page.form) /\ NotWrittenLater(S_TempK)) =>
        (Has(payload, S_TempK) /\ Get(payload, S_TempK) = Str(temperature_k))

C3_Witness ==
    /\ Posted /\ page.hasForm
    /\ page.form = <<E_species, E_temp>>
    /\ Len(species) = 2
    /\ Get(payload, S_TempK) = <<"2", "9", "8", ".", "1">>

HasWaterVar(form) == \E i \in 1..Len(form) : form[i].name = S_water_var

WaterModeSet ==
    /\ Has(payload, S_interactive_type)
    /\ Get(payload, S_interactive_type) = S_2
    /\ Has(payload, S_water_var)
    /\ Get(payload, S_water_var) = Str(rh)

(* C4 as stated: a form with a field named "water_var", of any kind and    *)
(* default state, yields interactive_type = "2" and water_var = str(rh).   *)
C4_WaterVarAlways ==
    (Posted /\ page.hasForm /\ HasWaterVar(page.form)) => WaterModeSet

(* C4, amended: when a field named "water_var" is seeded into the payload  *)
(* (any field but an unchecked checkbox or radio, which the seeding leaves *)
(* out) and no later rule targets "water_var" or "interactive_type" (no    *)
(* species label equal to either ignoring case, no checkbox or radio the   *)
(* solids rule sets and no submit control under either name), the          *)
(* submitted payload maps interactive_type to "2" and water_var to         *)
(* str(rh).                                                                *)
C4_WaterVarWhenSeeded ==
    (/\ Posted /\ page.hasForm
     /\ S_water_var \in SeededNames(page.form)
     /\ NotWrittenLater(S_water_var)
     /\ NotWrittenLater(S_interactive_type)) => WaterModeSet

C4_Witness ==
    /\ Posted /\ page.hasForm
    /\ page.form = <<E_waterbox, E_water>>
    /\ rh = 10
    /\ Get(payload, S_water_var) = <<"1", ".", "0">>
    /\ Get(payload, S_interactive_type) = S_2

SpeciesTextareas(form) ==
    {i \in 1..Len(form) :
        /\ form[i].tag = "textarea"
        /\ \E q \in {S_species, S_conc, S_concentration, S_input} :
              Contains(Lower(form[i].name), q)}

NoFieldNamedLikeSpecies(form) ==
    \A l \in SpeciesKeys(species) : \A n \in FormNames(form) : Lower(n) # Lower(l)

IsSpeciesBlock(b) ==
    /\ b # <<>>
    /\ b[Len(b)] # "\n"
    /\ SplitLines(b) =
          [i \in 1..Len(species) |-> species[i][1] \o <<" ">> \o Str(species[i][2])]

NoFormFound == page.fetched /\ ~page.hasForm

IsGenericPayload ==
    /\ Keys(payload) = {S_Temperature, S_T, S_RH, S_submit} \cup SpeciesKeys(species)
    /\ Get(payload, S_Temperature) = Str(temperature_k)
    /\ Get(payload, S_T) = Str(temperature_k)
    /\ Get(payload, S_RH) = Str(rh)
    /\ \A i \in 1..Len(species) : Get(payload, species[i][1]) = Str(species[i][2])

C7_TwoCallsNoRetry ==
    /\ Len(calls) <= 2
    /\ Len(calls) >= 1 => calls[1].method = "GET"
    /\ Len(calls) = 2 => (calls[2].method = "POST" /\ calls[1].ok /\ page.fetched)
    /\ \A i \in 1..Len(calls) :
          ~calls[i].ok => (i = Len(calls) /\ pc = "error")
    /\ pc = "error" =>
          (/\ calls # <<>>
           /\ ~calls[Len(calls)].ok
           /\ results = <<>>
           /\ ~ENABLED Next)
    /\ pc = "done" => (Len(calls) = 2 /\ calls[2].ok /\ ~ENABLED Next)

C7_Witness ==
    /\ pc = "error"
    /\ Len(calls) = 2
    /\ page.hasForm
    /\ results = <<>>

AllIn(s, from, to, S) == \A k \in from..to : s[k] \in S

(* t[from..Len(t)] is  [Ee][+-]?\d+  or empty *)
IsExponentPart(t, from) ==
    \/ from = Len(t) + 1
    \/ /\ from < Len(t)
       /\ t[from] \in {"E", "e"}
       /\ \E sg \in 0..1 :
             /\ sg = 1 => t[from + 1] \in {"+", "-"}
             /\ from + sg < Len(t)
             /\ AllIn(t, from + sg + 1, Len(t), DigitSet)

(* t is  [+-]?\d*\.?\d+(?:[Ee][+-]?\d+)?  by its parts: sign, a digits,    *)
(* dot, b >= 1 digits, exponent                                            *)
IsNumberLiteral(t) ==
    \E sg \in 0..1, dot \in 0..1 : \E a \in 0..Len(t) : \E b \in 1..Len(t) :
        /\ sg + a + dot + b <= Len(t)
        /\ sg = 1 => t[1] \in {"+", "-"}
        /\ AllIn(t, sg + 1, sg + a, DigitSet)
        /\ dot = 1 => t[sg + a + 1] = "."
        /\ AllIn(t, sg + a + dot + 1, sg + a + dot + b, DigitSet)
        /\ IsExponentPart(t, sg + a + dot + b + 1)

(* the splits <<n, v>> of a line into name [1..n], whitespace, number [v..] *)
LineSplits(line) ==
    UNION {{<<n, v>> : v \in {w \in (n + 2)..Len(line) :
                                /\ AllIn(line, n + 1, w - 1, SpaceChars)
                                /\ IsNumberLiteral(SubSeq(line, w, Len(line)))}} :
           n \in {m \in 1..(Len(line) - 2) : AllIn(line, 1, m, NameSet)}}

StripAll(ls) == [i \in 1..Len(ls) |-> Strip(ls[i])] \o <<>>

(* a line with three or more tokens, or shaped 'label = n' or 'label: n'   *)
HasTrailingTokenOrScalarShape(line) ==
    \/ \E i \in 1..Len(line) : line[i] \in {"=", ":"}
    \/ \E i, j \in 1..Len(line) :
          i + 1 < j /\ line[i] \in SpaceChars /\ line[j] \in SpaceChars
                    /\ \E k \in (i + 1)..(j - 1) : line[k] \notin SpaceChars

(* lines: the trimmed lines; splits[i]: a split of line i, <<>> if none   *)
TableIsExactly(table, lines, splits) ==
    LET full == {i \in 1..Len(lines) : splits[i] # <<>>}
        NameOf(i) == SubSeq(lines[i], 1, splits[i][1])
        NumberOf(i) == SubSeq(lines[i], splits[i][2], Len(lines[i]))
    IN /\ Keys(table) = {NameOf(i) : i \in full}
       /\ \A i \in full :
             (\A j \in full : (j > i => NameOf(j) # NameOf(i)))
                => Get(table, NameOf(i)) = ToFloat(NumberOf(i))
       /\ \A i \in 1..Len(lines) :
             HasTrailingTokenOrScalarShape(lines[i]) => splits[i] = <<>>

SplitsOf(lines) ==
    [i \in 1..Len(lines) |->
        IF LineSplits(lines[i]) = {} THEN <<>>
        ELSE CHOOSE nv \in LineSplits(lines[i]) : TRUE] \o <<>>

TableOfLines(table, lines) == TableIsExactly(table, lines, SplitsOf(lines))

(* C8: the molarities table has an entry name -> number exactly for the    *)
(* trimmed non-empty lines that are, as a whole, <name><whitespace><number>*)
(* with <name> of letters, digits and _+-()[]/ ; a line with a trailing    *)
(* token and a scalar line 'label = number' or 'label: number' give none.  *)
C8_TableIsExactlyFullLines ==
    pc = "parsed" =>
        TableOfLines(IF Has(results, "molarities") THEN Get(results, "molarities")
                     ELSE <<>>,
                     StripAll(SplitLines(text)))

C8_Witness ==
    /\ pc = "parsed"
    /\ text = Join(<<L_trailing, L_na>>, <<"\n">>)
    /\ Get(results, "molarities") = <<<<S_Na, <<1, -1>>>>>>
    /\ Keys(results) = {"molarities"}

(* the named checkbox/radio fields of the form in whose name, value or     *)
(* label text the solid s occurs, ignoring case                            *)
SolidFieldsOf(form, s) ==
    {form[i].name : i \in {j \in 1..Len(form) : SolidMatches(form[j], {s})}}

(* the fields the default values leave out of the payload and the          *)
(* submitted payload holds                                                 *)
SetAfterSeeding(form) == Keys(payload) \ Keys(Seed(form))

(* C9 as stated: for every requested solid, at most one field of the form  *)
(* has its payload value set because the solid's label occurs in the       *)
(* field's name, value or label text.                                      *)
C9_OneFieldPerSolid ==
    (Posted /\ page.hasForm) =>
        \A s \in solids :
            Cardinality(SolidFieldsOf(page.form, s)
                            \cap SetAfterSeeding(page.form)) <= 1

(* C9, amended: the solids rule stops at the first solid that occurs in a  *)
(* field, not at the first field a solid occurs in: every named            *)
(* checkbox/radio field in whose name, value or label text some requested  *)
(* solid occurs holds its value attribute, or "on" without one, in the     *)
(* submitted payload, so one solid sets every field it occurs in; a named  *)
(* unchecked checkbox/radio in which no requested solid occurs stays out   *)
(* of the payload unless another field or rule writes its name.            *)
C9_EveryMatchingFieldSet ==
    (Posted /\ page.hasForm) =>
        \A i \in 1..Len(page.form) :
            \E e \in {page.form[i]} :
                /\ (/\ solids # {}
                    /\ SolidMatches(e, solids)
                    /\ \A j \in 1..Len(page.form) :
                          (page.form[j].name = e.name
                              /\ SolidMatches(page.form[j], solids))
                          => ValueOr(page.form[j], S_on) = ValueOr(e, S_on)
                    /\ SubmitName(page.form) # e.name)
                   => (Has(payload, e.name)
                          /\ Get(payload, e.name) = ValueOr(e, S_on))
                /\ (/\ IsUncheckedBox(e)
                    /\ e.name # <<>>
                    /\ e.name \notin SolidNames(page.form, solids)
                    /\ e.name \notin Keys(Seed(page.form))
                    /\ e.name \notin {S_Temperature, S_T, S_RH,
                                      S_interactive_type, S_submit}
                    /\ SubmitName(page.form) # e.name)
                   => ~Has(payload, e.name)

C9_Witness ==
    /\ Posted /\ page.hasForm
    /\ page.form = <<E_solid1, E_ice_b>>
    /\ solids = {S_NaCl, S_Ice}
    /\ Keys(Seed(page.form)) = {}
    /\ Get(payload, E_solid1.name) = S_Ice
    /\ Get(payload, E_ice_b.name) = S_on

(* the form has no submit-typed input and no button element                *)
NoSubmitControl(form) == \A i \in 1..Len(form) : ~IsSubmitControl(form[i])

(* C10 as stated: with a form without a submit-typed input and without a   *)
(* button, the submitted payload holds "submit" = "Run model", whatever    *)
(* the other fields of the form are.                                       *)
C10_RunModelAlways ==
    (Posted /\ page.hasForm /\ NoSubmitControl(page.form)) =>
        (Has(payload, S_submit) /\ Get(payload, S_submit) = S_RunModel)

(* C10, amended: with a form without a submit-typed input and without a    *)
(* button, the submitted payload holds the key "submit"; its value is      *)
(* "Run model" when no field named "submit" reached the payload before the *)
(* submit rule, and otherwise the value that field already had is kept.    *)
C10_SubmitKeptOrRunModel ==
    (Posted /\ page.hasForm /\ NoSubmitControl(page.form)) =>
        /\ Has(payload, S_submit)
        /\ S_submit \notin (SeededNames(page.form) \cup solidFields)
              => Get(payload, S_submit) = S_RunModel
        /\ (S_submit \in SeededNames(page.form) /\ NotWrittenLater(S_submit))
              => Get(payload, S_submit) = Get(Seed(page.form), S_submit)

C10_Witness ==
    /\ Posted /\ page.hasForm
    /\ page.form = <<E_hidden, E_temp>>
    /\ NoSubmitControl(page.form)
    /\ Get(payload, S_submit) = E_hidden.value
    /\ Get(payload, S_submit) # S_RunModel

(* the fields whose default value is in the payload, by position           *)
SeededFields(form) ==
    {i \in 1..Len(form) : /\ form[i].tag # "button"
                          /\ ~IsUncheckedBox(form[i])
                          /\ form[i].name # <<>>}

(* the keys of the payload when the species rules start: the seeded names  *)
(* and the key the water rule adds                                         *)
KeysBeforeSpecies(form) ==
    SeededNames(form) \cup (IF \E n \in SeededNames(form) : IsWaterKey(n)
                            THEN {S_interactive_type} ELSE {})

(* with species given, neither the exact-match rule nor the textarea       *)
(* fallback places them                                                    *)
NoExactNoTextarea ==
    /\ species # <<>>
    /\ \A l \in SpeciesKeys(species) :
          \A n \in KeysBeforeSpecies(page.form) : Lower(n) # Lower(l)
    /\ SpeciesTextareas(page.form) = {}

(* the seeded fields whose lowercased name contains "species", "conc",     *)
(* "concentration" or "mole"                                               *)
GenericFields(form) ==
    {i \in SeededFields(form) :
        \E q \in {S_species, S_conc, S_concentration, S_mole} :
            Contains(Lower(form[i].name), q)}

FirstOf(S) == CHOOSE i \in S : \A j \in S : i <= j

HoldsBlock(k) == Has(payload, k) /\ IsSpeciesBlock(Get(payload, k))

(* C11 as stated: when neither the exact match nor the textarea fallback   *)
(* placed the species, the block goes to the first non-textarea field      *)
(* whose lowercased name contains "species", "conc", "concentration" or    *)
(* "mole", and no textarea receives it.                                    *)
C11_NeverATextarea ==
    (Posted /\ page.hasForm /\ NoExactNoTextarea) =>
        /\ \A i \in 1..Len(page.form) :
              page.form[i].tag = "textarea" => ~HoldsBlock(page.form[i].name)
        /\ \A k \in Keys(payload) :
              HoldsBlock(k) =>
                 \E i \in GenericFields(page.form) :
                    /\ page.form[i].name = k
                    /\ page.form[i].tag # "textarea"

(* C11, amended: when neither the exact match nor the textarea fallback    *)
(* placed the species, the block goes to the first key of the payload, in  *)
(* the document order of the seeded fields and textareas included, whose   *)
(* lowercased name contains "species", "conc", "concentration" or "mole":  *)
(* a textarea whose name contains only "mole" receives it through this     *)
(* rule.  No other key holds the block, and the field keeps it unless the  *)
(* solids rule or the submit rule writes the same name afterwards.         *)
C11_FirstSeededFieldOfAnyKind ==
    (Posted /\ page.hasForm /\ NoExactNoTextarea) =>
        /\ placedBy.exact = {} /\ placedBy.textarea = <<>>
        /\ GenericFields(page.form) = {} =>
              /\ placedBy.generic = <<>>
              /\ \A k \in Keys(payload) : ~HoldsBlock(k)
        /\ GenericFields(page.form) # {} =>
              \E name \in {page.form[FirstOf(GenericFields(page.form))].name} :
                 /\ placedBy.generic = name
                 /\ (name \notin solidFields /\ SubmitName(page.form) # name)
                       => HoldsBlock(name)
                 /\ \A k \in Keys(payload) \ {name} : ~HoldsBlock(k)

C11_Witness ==
    /\ Posted /\ page.hasForm
    /\ page.form = <<E_moles, E_concs>>
    /\ species = <<<<S_Na, 1>>, <<S_Cl, 2>>>>
    /\ placedBy.generic = E_moles.name
    /\ Get(payload, E_moles.name) =
          <<"N", "a", "+", " ", "0", ".", "1", "\n", "C", "l", "-", " ", "0", ".", "2">>
    /\ Get(payload, E_concs.name) = <<>>

(* the workers whose completion slot has not run yet *)
InFlight == {i \in 1..Len(workers) : workers[i].status # "delivered"}

(* at most one worker is in flight, the Run button is disabled while one   *)
(* is, and Export is enabled only with no worker in flight and a result    *)
OneInFlight ==
    /\ Cardinality(InFlight) <= 1
    /\ InFlight # {} => ~run_btn
    /\ export_btn => (InFlight = {} /\ current_results # <<>>)

(* a step that starts a worker starts one, from an enabled Run button that *)
(* it disables, with every earlier worker's slot already run               *)
StartsOnlyWhenIdle ==
    Len(workers') > Len(workers) =>
        /\ run_btn /\ ~run_btn'
        /\ InFlight = {}
        /\ Len(workers') = Len(workers) + 1
        /\ workers'[Len(workers')].status = "running"

(* a step that enables the Run button is the slot of the worker in flight  *)
ReenabledOnlyByCallback ==
    (~run_btn /\ run_btn') =>
        \E i \in InFlight :
            /\ workers[i].status = "emitted"
            /\ workers'[i].status = "delivered"
            /\ InFlight' = {}

(* C12: in the main window, after any sequence of Run clicks, worker       *)
(* completions and worker errors, at most one AIMWorker is in flight:      *)
(* on_run starts a worker only from an enabled Run button, which it        *)
(* disables; only the on_result or on_error of that worker enables the     *)
(* button again; and Export is enabled only when no worker is in flight    *)
(* and current_results holds a result.                                     *)
C12_OneRequestInFlight ==
    /\ [](pc = "window" => OneInFlight)
    /\ [][StartsOnlyWhenIdle /\ ReenabledOnlyByCallback]_vars

C12_Witness ==
    /\ pc = "window"
    /\ Len(workers) = 3
    /\ workers[1].status = "delivered" /\ workers[1].signal = "result_ready"
    /\ workers[2].status = "delivered" /\ workers[2].signal = "error"
    /\ workers[3].status = "running"
    /\ ~run_btn /\ ~export_btn
    /\ current_results = workers[1].value
====
